---- MODULE Spec2Model ----
(***************************************************************************)
(* modsync: src/sync/torrent.rs, manage_torrent_task, and                  *)
(* src/ui/config_panel.rs, ConfigPanel.                                    *)
(*                                                                         *)
(* One invocation of manage_torrent_task is an asynchronous task that      *)
(* suspends at its two .await points (the forget call and the add call).   *)
(* The model splits the function at those points: Invoke runs from the     *)
(* call to the first suspension, ForgetReturns resumes the task after the  *)
(* forget call, AddReturns resumes it after the add call.  The engine      *)
(* (librqbit) is external: its answers are nondeterministic inputs.        *)
(***************************************************************************)
EXTENDS Integers, Sequences, FiniteSets

\* ------------------------------------------------------------------ bounds

\* Torrent identifiers handed out by the engine are 0..MaxId.
MaxId == 2

\* Commands the command channel holds at most (nothing consumes them here).
MaxQueued == 3

\* ------------------------------------------------------------------ values

\* Option<usize>
NoneId == [some |-> FALSE, v |-> 0]
SomeId(i) == [some |-> TRUE, v |-> i]
Ids == 0..MaxId
OptIds == {NoneId} \cup {SomeId(i) : i \in Ids}

\* Two 16-bit limbs hold the 32-bit and wider values of the rate conversion
\* (value = hi * 2^16 + lo); hi is unbounded for a value wider than 32 bits.
Limb == 65536
Zero32 == [hi |-> 0, lo |-> 0]

\* Option<NonZeroU32>
NoneU32 == [some |-> FALSE, v |-> Zero32]
SomeU32(w) == [some |-> TRUE, v |-> w]

\* Option<KB/s> of AppConfig.max_download_speed / max_upload_speed
NoneRate == [some |-> FALSE, v |-> 0]
SomeRate(s) == [some |-> TRUE, v |-> s]

\* KB/s values around the edges of the conversion: zero, small, the example
\* of the documentation, the last value whose product fits 32 bits
\* (2^22 - 1), the first that does not (2^22), and wrapped values.
RateInputs == {0, 1, 500, 4194303, 4194304, 4194305, 8388608}
OptRates == {NoneRate} \cup {SomeRate(s) : s \in RateInputs}

\* download_path: empty or configured
Paths == {"", "/tmp/mods"}

\* AppConfig, the fields manage_torrent_task reads
Configs ==
  [download_path : Paths, should_seed : BOOLEAN,
   max_upload_speed : OptRates, max_download_speed : OptRates]

\* ------------------------------------------------------ rate-limit translation

\* s * 1024, exact: the explicit `as u32` on the product shows the field is
\* not itself a u32, so the multiplication is done in the wider type of the
\* field and cannot overflow for the rates considered here.
Mul1024(s) == [hi |-> s \div 64, lo |-> (s % 64) * 1024]

\* `as u32`: the truncating cast keeps the low 32 bits
AsU32(w) == [hi |-> w.hi % Limb, lo |-> w.lo]

\* (mutant) the value is wrapped without the non-zero check
NonZeroU32New_Unchecked(v) == SomeU32(v)

\* NonZeroU32::new
NonZeroU32New(v) == IF v = Zero32 THEN NoneU32 ELSE SomeU32(v)

\* opt.and_then(|s| { let value = (s * 1024) as u32; NonZeroU32::new(value) })
RateLimit(opt) ==
  IF opt.some THEN NonZeroU32New(AsU32(Mul1024(opt.v))) ELSE NoneU32

\* (mutant) the two directions are swapped
LimitsConfig_Swapped(c) ==
  [download_bps |-> RateLimit(c.max_upload_speed),
   upload_bps |-> RateLimit(c.max_download_speed)]

\* LimitsConfig { download_bps, upload_bps }
LimitsConfig(c) ==
  [download_bps |-> RateLimit(c.max_download_speed),
   upload_bps |-> RateLimit(c.max_upload_speed)]

\* AddTorrentOptions { output_folder, overwrite, paused, ratelimits, .. }
AddTorrentOptions(c) ==
  [output_folder |-> c.download_path,
   overwrite |-> TRUE,
   paused |-> ~c.should_seed,
   ratelimits |-> LimitsConfig(c)]

NoOptions ==
  [output_folder |-> "", overwrite |-> FALSE, paused |-> FALSE,
   ratelimits |-> [download_bps |-> NoneU32, upload_bps |-> NoneU32]]

\* ------------------------------------------------------------------ state

VARIABLES
  pc,                     \* "idle" | "await_forget" | "await_add" | "returned"
  app_config,             \* the &AppConfig of the invocation
  current_id_to_forget,   \* Option<usize>
  ui_tx,                  \* messages sent on ui_tx by the invocation, in order
  rx_live,                \* the receiver of ui_tx has not been dropped
  api_calls,              \* engine calls of the invocation, in order
  result,                 \* Result<Option<usize>> once returned
  task2,                  \* a second invocation: [pc, ui_tx, api_calls, result, began]
  engine,                 \* the engine: [tracked, next_id]
  held,                   \* the identifier the caller keeps between invocations
  app                     \* MyApp, the fields the configuration panel uses

vars == <<pc, app_config, current_id_to_forget, ui_tx, rx_live, api_calls, result,
          task2, engine, held, app>>

\* ---------------------------------------------------------------- messages

MsgForgetFailed == "Error forgetting old torrent"
MsgNoPath == "Download path not configured"
MsgNoId == "Torrent added but API returned no ID"

\* SyncEvent::Error(msg); id is the torrent named in the message, -1 if none
EventError(msg, id) == [kind |-> "event", tag |-> "Error", id |-> id, msg |-> msg]
\* SyncEvent::TorrentAdded(id)
EventTorrentAdded(id) == [kind |-> "event", tag |-> "TorrentAdded", id |-> id, msg |-> ""]
\* SyncStatus::{Idle, UpdatingTorrent, Error(msg)}
StatusIdle == [kind |-> "status", tag |-> "Idle", id |-> -1, msg |-> ""]
StatusUpdatingTorrent == [kind |-> "status", tag |-> "UpdatingTorrent", id |-> -1, msg |-> ""]
StatusError(msg) == [kind |-> "status", tag |-> "Error", id |-> -1, msg |-> msg]

\* ui_tx.send(m): unbounded, never blocks; it fails exactly when the receiver
\* is gone, and every call site discards the result (`let _ =`).
Send(tx, m) ==
  Append(tx, [kind |-> m.kind, tag |-> m.tag, id |-> m.id, msg |-> m.msg,
              delivered |-> rx_live])

\* send_sync_status_event(ui_tx, status)
send_sync_status_event(tx, status) == Send(tx, status)

\* -------------------------------------------------------------- engine calls

\* A call record: `at` is the number of messages the invocation had sent when
\* the call was issued, `resp_id` the identifier of the response once the call
\* has completed.
ForgetCall(id, tx) ==
  [op |-> "forget", id |-> id, options |-> NoOptions, state |-> "in_flight",
   at |-> Len(tx), resp_id |-> NoneId]
AddCall(o, tx) ==
  [op |-> "add", id |-> -1, options |-> o, state |-> "in_flight",
   at |-> Len(tx), resp_id |-> NoneId]

\* the call in flight (the last one issued) completes with state s
Complete(calls, s, rid) ==
  [calls EXCEPT ![Len(calls)].state = s, ![Len(calls)].resp_id = rid]

\* Result<Option<usize>>
OkNone == [kind |-> "Ok", id |-> NoneId]
OkSome(i) == [kind |-> "Ok", id |-> SomeId(i)]
Err == [kind |-> "Err", id |-> NoneId]
NoResult == [kind |-> "pending", id |-> NoneId]

\* engine answers: forget -> Ok(()) | Err(e); add -> Err(e) | Ok{id: Option}
ForgetResponses == {"ok", "err"}
AddResponses == {[ok |-> FALSE, id |-> NoneId]} \cup {[ok |-> TRUE, id |-> i] : i \in OptIds}

\* a task that has not been invoked (`began` records where the first
\* invocation stood when this one was invoked)
IdleTask ==
  [pc |-> "idle", ui_tx |-> <<>>, api_calls |-> <<>>, result |-> NoResult,
   began |-> "none"]

\* the engine tracks no transfer of this component; identifiers start at 0
EmptyEngine == [tracked |-> {}, next_id |-> 0]

\* MyApp before the first frame: nothing configured, nothing typed.
\* `frame` records what the last call of ConfigPanel::draw did: the buttons
\* the pointer clicked, the configuration and the command queue as they were
\* when the two command buttons were drawn, the commands sent, and the
\* commands whose failed send was logged.
NoConfig == [torrent_url |-> "", download_path |-> ""]
NoFrame ==
  [clicks |-> {}, config |-> NoConfig, queue |-> <<>>, sent |-> <<>>, logged |-> <<>>]
FreshApp ==
  [config |-> NoConfig,
   config_edit_url |-> "", config_edit_path_str |-> "",
   sync_cmd_tx |-> <<>>, cmd_rx_live |-> TRUE, frame |-> NoFrame]

\* ------------------------------------------------------------------ Init

Init ==
  /\ pc = "idle"
  /\ app_config \in Configs
  /\ current_id_to_forget \in OptIds
  /\ ui_tx = <<>>
  /\ rx_live = TRUE
  /\ api_calls = <<>>
  /\ result = NoResult
  /\ task2 = IdleTask
  /\ engine = EmptyEngine
  /\ held = NoneId
  /\ app = FreshApp

\* --------------------------------------------------------------- the task

\* (mutant) the path guard is missing
PathIsEmpty_Never(c) == FALSE

\* app_config.download_path.as_os_str().is_empty()
PathIsEmpty(c) == c.download_path = ""

\* (mutant) the path guard sets the Error status but sends no Error event
PathGuardMessages_NoEvent(tx) ==
  send_sync_status_event(tx, StatusError(MsgNoPath))

\* The messages of the path guard: the Error event, then the Error status
PathGuardMessages(tx) ==
  send_sync_status_event(Send(tx, EventError(MsgNoPath, -1)), StatusError(MsgNoPath))

\* (mutant) the status send of step 2 is checked: with the receiver gone the
\* invocation fails before the add call
AddNewTorrent_SendChecked(tx, calls) ==
  IF PathIsEmpty(app_config)
  THEN /\ ui_tx' = PathGuardMessages(tx)
       /\ api_calls' = calls
       /\ result' = OkNone
       /\ pc' = "returned"
  ELSE IF ~rx_live
  THEN /\ ui_tx' = send_sync_status_event(tx, StatusUpdatingTorrent)
       /\ api_calls' = calls
       /\ result' = Err
       /\ pc' = "returned"
  ELSE /\ ui_tx' = send_sync_status_event(tx, StatusUpdatingTorrent)
       /\ api_calls' = Append(calls, AddCall(AddTorrentOptions(app_config),
                                            send_sync_status_event(tx, StatusUpdatingTorrent)))
       /\ result' = NoResult
       /\ pc' = "await_add"

\* (mutant) the UpdatingTorrent status of step 2 is not sent
AddNewTorrent_NoStatus(tx, calls) ==
  IF PathIsEmpty(app_config)
  THEN /\ ui_tx' = PathGuardMessages(tx)
       /\ api_calls' = calls
       /\ result' = OkNone
       /\ pc' = "returned"
  ELSE /\ ui_tx' = tx
       /\ api_calls' = Append(calls, AddCall(AddTorrentOptions(app_config), tx))
       /\ result' = NoResult
       /\ pc' = "await_add"

\* Step 2, from the path guard to the second suspension point (or the early
\* return), entered with the messages and calls of step 1.
AddNewTorrent(tx, calls) ==
  IF PathIsEmpty(app_config)
  THEN /\ ui_tx' = PathGuardMessages(tx)
       /\ api_calls' = calls
       /\ result' = OkNone
       /\ pc' = "returned"
  ELSE /\ ui_tx' = send_sync_status_event(tx, StatusUpdatingTorrent)
       /\ api_calls' = Append(calls, AddCall(AddTorrentOptions(app_config),
                                            send_sync_status_event(tx, StatusUpdatingTorrent)))
       /\ result' = NoResult
       /\ pc' = "await_add"

\* (mutant) step 1 is missing: the old torrent is never forgotten
ForgetOldTorrent_Skipped(tx, calls) == AddNewTorrent(tx, calls)

\* (mutant) the forget call is started but not awaited: step 2 runs at once
ForgetOldTorrent_NoAwait(tx, calls) ==
  IF current_id_to_forget.some
  THEN AddNewTorrent(send_sync_status_event(tx, StatusUpdatingTorrent),
                     Append(calls, ForgetCall(current_id_to_forget.v,
                                              send_sync_status_event(tx, StatusUpdatingTorrent))))
  ELSE AddNewTorrent(tx, calls)

\* Step 1 up to the first suspension point: the task waits for the forget call
ForgetOldTorrent(tx, calls) ==
  IF current_id_to_forget.some
  THEN /\ ui_tx' = send_sync_status_event(tx, StatusUpdatingTorrent)
       /\ api_calls' = Append(calls, ForgetCall(current_id_to_forget.v,
                                               send_sync_status_event(tx, StatusUpdatingTorrent)))
       /\ result' = NoResult
       /\ pc' = "await_forget"
  ELSE AddNewTorrent(tx, calls)

\* The caller invokes manage_torrent_task(app_config, api, ui_tx, current_id_to_forget, ..)
Invoke ==
  /\ pc = "idle"
  /\ ForgetOldTorrent(<<>>, <<>>)
  /\ UNCHANGED <<app_config, current_id_to_forget, rx_live>>
  /\ UNCHANGED <<task2, engine, held, app>>

\* (mutant) a failed forget is only logged, no Error event is sent
OnForgetResult_Silent(tx, r, id) == tx

\* (mutant) the Error event is sent in the Ok arm as well
OnForgetResult_AlwaysError(tx, r, id) == Send(tx, EventError(MsgForgetFailed, id))

\* The messages of the match on the forget result
OnForgetResult(tx, r, id) ==
  IF r = "ok" THEN tx ELSE Send(tx, EventError(MsgForgetFailed, id))

\* api_torrent_action_forget(..).await returns
ForgetReturns ==
  /\ pc = "await_forget"
  /\ \E r \in ForgetResponses :
       AddNewTorrent(OnForgetResult(ui_tx, r, current_id_to_forget.v),
                     Complete(api_calls, r, NoneId))
  /\ UNCHANGED <<app_config, current_id_to_forget, rx_live>>
  /\ UNCHANGED <<task2, engine, held, app>>

\* (mutant) the `?` is missing: an engine error of add is swallowed
AddResult_SwallowErr(resp) ==
  IF resp.ok /\ resp.id.some THEN OkSome(resp.id.v) ELSE OkNone

\* .context(..)? and the branches on response.id: the value returned
AddResult(resp) ==
  IF ~resp.ok THEN Err
  ELSE IF resp.id.some THEN OkSome(resp.id.v) ELSE OkNone

\* (mutant) Idle is sent before TorrentAdded
OnAddResponse_IdleFirst(tx, resp) ==
  IF ~resp.ok THEN tx
  ELSE IF resp.id.some
       THEN Send(send_sync_status_event(tx, StatusIdle), EventTorrentAdded(resp.id.v))
       ELSE send_sync_status_event(Send(tx, EventError(MsgNoId, -1)), StatusError(MsgNoId))

\* (mutant) the status goes back to Idle before the engine error is propagated
OnAddResponse_IdleOnErr(tx, resp) ==
  IF ~resp.ok THEN send_sync_status_event(tx, StatusIdle)
  ELSE IF resp.id.some
       THEN send_sync_status_event(Send(tx, EventTorrentAdded(resp.id.v)), StatusIdle)
       ELSE send_sync_status_event(Send(tx, EventError(MsgNoId, -1)), StatusError(MsgNoId))

\* (mutant) a response without identifier is reported as an event only and
\* the status goes back to Idle
OnAddResponse_NoIdIdle(tx, resp) ==
  IF ~resp.ok THEN tx
  ELSE IF resp.id.some
       THEN send_sync_status_event(Send(tx, EventTorrentAdded(resp.id.v)), StatusIdle)
       ELSE send_sync_status_event(Send(tx, EventError(MsgNoId, -1)), StatusIdle)

\* the messages sent after the add call
OnAddResponse(tx, resp) ==
  IF ~resp.ok THEN tx
  ELSE IF resp.id.some
       THEN send_sync_status_event(Send(tx, EventTorrentAdded(resp.id.v)), StatusIdle)
       ELSE send_sync_status_event(Send(tx, EventError(MsgNoId, -1)), StatusError(MsgNoId))

\* api_add_torrent(..).await returns
AddReturns ==
  /\ pc = "await_add"
  /\ \E resp \in AddResponses :
       /\ ui_tx' = OnAddResponse(ui_tx, resp)
       /\ api_calls' = Complete(api_calls, IF resp.ok THEN "ok" ELSE "err", resp.id)
       /\ result' = AddResult(resp)
  /\ pc' = "returned"
  /\ UNCHANGED <<app_config, current_id_to_forget, rx_live>>
  /\ UNCHANGED <<task2, engine, held, app>>

\* The consumer of the events goes away
DropReceiver ==
  /\ rx_live
  /\ rx_live' = FALSE
  /\ UNCHANGED <<pc, app_config, current_id_to_forget, ui_tx, api_calls, result>>
  /\ UNCHANGED <<task2, engine, held, app>>

Next == Invoke \/ ForgetReturns \/ AddReturns \/ DropReceiver

Spec == Init /\ [][Next]_vars

\* ------------------------------------------------- a second invocation

\* The same function run as a second task on the shared app_config and
\* current_id_to_forget; its state is the record task2.

\* Step 2 (path guard to the add call) of the second task
Task2AddNewTorrent(tx, calls) ==
  IF PathIsEmpty(app_config)
  THEN [pc |-> "returned", ui_tx |-> PathGuardMessages(tx),
        api_calls |-> calls, result |-> OkNone]
  ELSE [pc |-> "await_add",
        ui_tx |-> send_sync_status_event(tx, StatusUpdatingTorrent),
        api_calls |-> Append(calls, AddCall(AddTorrentOptions(app_config),
                                            send_sync_status_event(tx, StatusUpdatingTorrent))),
        result |-> NoResult]

\* Step 1 (up to the forget call) of the second task
Task2ForgetOldTorrent(tx, calls) ==
  IF current_id_to_forget.some
  THEN [pc |-> "await_forget",
        ui_tx |-> send_sync_status_event(tx, StatusUpdatingTorrent),
        api_calls |-> Append(calls, ForgetCall(current_id_to_forget.v,
                                               send_sync_status_event(tx, StatusUpdatingTorrent))),
        result |-> NoResult]
  ELSE Task2AddNewTorrent(tx, calls)

\* the second task after its forget call returned r
Task2AfterForget(t, r) ==
  Task2AddNewTorrent(OnForgetResult(t.ui_tx, r, current_id_to_forget.v),
                     Complete(t.api_calls, r, NoneId))

\* the second task after its add call returned resp
Task2AfterAdd(t, resp) ==
  [pc |-> "returned",
   ui_tx |-> OnAddResponse(t.ui_tx, resp),
   api_calls |-> Complete(t.api_calls, IF resp.ok THEN "ok" ELSE "err", resp.id),
   result |-> AddResult(resp)]

\* the second task, invoked when the first invocation stood at p
Began(t, p) ==
  [pc |-> t.pc, ui_tx |-> t.ui_tx, api_calls |-> t.api_calls, result |-> t.result,
   began |-> p]

\* the messages a step appended to the n it started with had a live receiver
WithLiveReceiver(t, n) ==
  [t EXCEPT !.ui_tx = [i \in DOMAIN t.ui_tx |->
                         IF i > n THEN [t.ui_tx[i] EXCEPT !.delivered = TRUE]
                         ELSE t.ui_tx[i]]]

\* ------------------------------------------ two receivers, one engine script

\* The invocation (whose receiver may be dropped at any time) and the second
\* task (whose receiver stays live) are given the same configuration, the
\* same previous identifier and, call by call, the same engine answers.

TwinInvoke ==
  /\ pc = "idle" /\ task2.pc = "idle"
  /\ ForgetOldTorrent(<<>>, <<>>)
  /\ task2' = Began(WithLiveReceiver(Task2ForgetOldTorrent(<<>>, <<>>), 0), pc)
  /\ UNCHANGED <<app_config, current_id_to_forget, rx_live, engine, held, app>>

TwinForgetReturns ==
  /\ \E r \in ForgetResponses :
       /\ pc = "await_forget"
       /\ AddNewTorrent(OnForgetResult(ui_tx, r, current_id_to_forget.v),
                        Complete(api_calls, r, NoneId))
       /\ task2.pc = "await_forget"
       /\ task2' = Began(WithLiveReceiver(Task2AfterForget(task2, r), Len(task2.ui_tx)),
                       task2.began)
  /\ UNCHANGED <<app_config, current_id_to_forget, rx_live, engine, held, app>>

TwinAddReturns ==
  /\ \E resp \in AddResponses :
       /\ pc = "await_add"
       /\ ui_tx' = OnAddResponse(ui_tx, resp)
       /\ api_calls' = Complete(api_calls, IF resp.ok THEN "ok" ELSE "err", resp.id)
       /\ result' = AddResult(resp)
       /\ pc' = "returned"
       /\ task2.pc = "await_add"
       /\ task2' = Began(WithLiveReceiver(Task2AfterAdd(task2, resp), Len(task2.ui_tx)),
                       task2.began)
  /\ UNCHANGED <<app_config, current_id_to_forget, rx_live, engine, held, app>>

NextTwin == TwinInvoke \/ TwinForgetReturns \/ TwinAddReturns \/ DropReceiver

SpecTwin == Init /\ [][NextTwin]_vars

\* ------------------------------------------------------- a stateful engine

\* The engine of the threaded and overlapping runs: it forgets a tracked
\* transfer whenever asked (an identifier it does not track may be refused),
\* and a successful add registers a transfer under a fresh identifier.

\* the answers forget(id) may give
EngineForgetResponses(id) ==
  IF id \in engine.tracked THEN {"ok"} ELSE ForgetResponses

\* the engine after forget(id) answered r
EngineAfterForget(id, r) ==
  IF r = "ok" THEN [engine EXCEPT !.tracked = @ \ {id}] ELSE engine

\* the answers add may give: an engine error, or the next fresh identifier
EngineAddResponses ==
  {[ok |-> FALSE, id |-> NoneId]} \cup
  (IF engine.next_id <= MaxId THEN {[ok |-> TRUE, id |-> SomeId(engine.next_id)]} ELSE {})

\* the engine after add answered resp
EngineAfterAdd(resp) ==
  IF resp.ok
  THEN [tracked |-> engine.tracked \cup {resp.id.v}, next_id |-> engine.next_id + 1]
  ELSE engine

\* api_torrent_action_forget(..).await returns, answered by the engine
EngineForgetReturns ==
  /\ pc = "await_forget"
  /\ \E r \in EngineForgetResponses(current_id_to_forget.v) :
       /\ AddNewTorrent(OnForgetResult(ui_tx, r, current_id_to_forget.v),
                        Complete(api_calls, r, NoneId))
       /\ engine' = EngineAfterForget(current_id_to_forget.v, r)
  /\ UNCHANGED <<app_config, current_id_to_forget, rx_live, task2, held, app>>

\* api_add_torrent(..).await returns, answered by the engine
EngineAddReturns ==
  /\ pc = "await_add"
  /\ \E resp \in EngineAddResponses :
       /\ ui_tx' = OnAddResponse(ui_tx, resp)
       /\ api_calls' = Complete(api_calls, IF resp.ok THEN "ok" ELSE "err", resp.id)
       /\ result' = AddResult(resp)
       /\ engine' = EngineAfterAdd(resp)
  /\ pc' = "returned"
  /\ UNCHANGED <<app_config, current_id_to_forget, rx_live, task2, held, app>>

\* ------------------------------------------- the caller threads the handle

\* configurations of the threaded and overlapping runs: the path varies
PathConfigs ==
  {c \in Configs : /\ c.max_upload_speed = NoneRate
                   /\ c.max_download_speed = SomeRate(500)}

\* The caller starts with no identifier, or with identifier 0 kept from an
\* earlier session, which the engine still tracks or has lost since.
InitialHandles ==
  {[held |-> NoneId, engine |-> EmptyEngine]} \cup
  {[held |-> SomeId(0), engine |-> [tracked |-> tr, next_id |-> 1]] : tr \in {{}, {0}}}

\* what the caller holds after an invocation: the identifier returned, or
\* the old one when the invocation failed
Threaded(old, res) == IF res.kind = "Err" THEN old ELSE res.id

\* The caller takes the result of the finished invocation and prepares the
\* next one, possibly after the destination path was reconfigured.
CallerTakesResult ==
  /\ pc = "returned"
  /\ held' = Threaded(held, result)
  /\ current_id_to_forget' = Threaded(held, result)
  /\ \E p \in Paths : app_config' = [app_config EXCEPT !.download_path = p]
  /\ pc' = "idle"
  /\ ui_tx' = <<>>
  /\ api_calls' = <<>>
  /\ result' = NoResult
  /\ UNCHANGED <<rx_live, task2, engine, app>>

InitThreaded ==
  /\ pc = "idle"
  /\ app_config \in PathConfigs
  /\ \E h \in InitialHandles :
       /\ held = h.held
       /\ current_id_to_forget = h.held
       /\ engine = h.engine
  /\ ui_tx = <<>>
  /\ rx_live = TRUE
  /\ api_calls = <<>>
  /\ result = NoResult
  /\ task2 = IdleTask
  /\ app = FreshApp

NextThreaded ==
  Invoke \/ EngineForgetReturns \/ EngineAddReturns \/ CallerTakesResult \/ DropReceiver

SpecThreaded == InitThreaded /\ [][NextThreaded]_vars

\* ------------------------------------------------- overlapping invocations

\* Two invocations for the same configuration and the same previous
\* identifier run against the one engine; each may be resumed whenever the
\* call it waits for has been answered.

\* (mutant) an invocation waits until no other invocation is in progress
Task2Invoke_Locked ==
  /\ task2.pc = "idle"
  /\ pc \in {"idle", "returned"}
  /\ task2' = Began(Task2ForgetOldTorrent(<<>>, <<>>), pc)
  /\ UNCHANGED <<pc, app_config, current_id_to_forget, ui_tx, rx_live, api_calls,
                 result, engine, held, app>>

\* the second manage_torrent_task(..) is invoked
Task2Invoke ==
  /\ task2.pc = "idle"
  /\ task2' = Began(Task2ForgetOldTorrent(<<>>, <<>>), pc)
  /\ UNCHANGED <<pc, app_config, current_id_to_forget, ui_tx, rx_live, api_calls,
                 result, engine, held, app>>

\* the forget call of the second task returns
Task2ForgetReturns ==
  /\ task2.pc = "await_forget"
  /\ \E r \in EngineForgetResponses(current_id_to_forget.v) :
       /\ task2' = Began(Task2AfterForget(task2, r), task2.began)
       /\ engine' = EngineAfterForget(current_id_to_forget.v, r)
  /\ UNCHANGED <<pc, app_config, current_id_to_forget, ui_tx, rx_live, api_calls,
                 result, held, app>>

\* the add call of the second task returns
Task2AddReturns ==
  /\ task2.pc = "await_add"
  /\ \E resp \in EngineAddResponses :
       /\ task2' = Began(Task2AfterAdd(task2, resp), task2.began)
       /\ engine' = EngineAfterAdd(resp)
  /\ UNCHANGED <<pc, app_config, current_id_to_forget, ui_tx, rx_live, api_calls,
                 result, held, app>>

NextOverlap ==
  \/ Invoke \/ EngineForgetReturns \/ EngineAddReturns
  \/ Task2Invoke \/ Task2ForgetReturns \/ Task2AddReturns
  \/ DropReceiver

SpecOverlap == InitThreaded /\ [][NextOverlap]_vars

\* ------------------------------------------------- the configuration panel

\* what the user can have typed into the two text fields
Urls == {"", "magnet:x"}
Buttons == {"save", "refresh", "verify"}

\* (mutant) only the URL is checked
is_config_valid_UrlOnly(a) == a.config.torrent_url # ""

\* let is_config_valid = !torrent_url.is_empty() && !download_path.is_empty()
is_config_valid(a) == a.config.torrent_url # "" /\ a.config.download_path # ""

\* ui.add_enabled(enabled, Button).clicked(): a disabled button takes no click
Clicked(enabled, click) == enabled /\ click

\* if let Err(e) = app.sync_cmd_tx.send(m) { eprintln!(..) }
SendCommand(a, m) ==
  IF a.cmd_rx_live
  THEN [a EXCEPT !.sync_cmd_tx = Append(@, m), !.frame.sent = Append(@, m)]
  ELSE [a EXCEPT !.frame.logged = Append(@, m)]

\* ConfigPanel::draw_refresh_button
draw_refresh_button(a, click) ==
  IF Clicked(is_config_valid(a), click) THEN SendCommand(a, "TriggerManualRefresh") ELSE a

\* ConfigPanel::draw_verify_button
draw_verify_button(a, click) ==
  IF Clicked(is_config_valid(a), click) THEN SendCommand(a, "TriggerFolderVerify") ELSE a

\* save_config_changes(app): the typed values become the configuration, or
\* the save is refused and the configuration stays
save_config_changes(a, accepted) ==
  IF accepted
  THEN [a EXCEPT !.config = [torrent_url |-> a.config_edit_url,
                             download_path |-> a.config_edit_path_str]]
  ELSE a

\* ConfigPanel::draw, one frame: the text fields take what was typed, then
\* the Save button, the refresh button and the verify button, in this order
draw(a, url, path, clicks, accepted) ==
  LET edited == [a EXCEPT !.config_edit_url = url, !.config_edit_path_str = path]
      saved == IF "save" \in clicks THEN save_config_changes(edited, accepted) ELSE edited
      start == [saved EXCEPT !.frame = [clicks |-> clicks, config |-> saved.config,
                                        queue |-> saved.sync_cmd_tx,
                                        sent |-> <<>>, logged |-> <<>>]]
  IN draw_verify_button(draw_refresh_button(start, "refresh" \in clicks),
                        "verify" \in clicks)

\* One frame of the UI; frames stop once the command queue may fill up
DrawFrame ==
  /\ Len(app.sync_cmd_tx) + 2 <= MaxQueued
  /\ \E url \in Urls, path \in Paths, clicks \in SUBSET Buttons, accepted \in BOOLEAN :
       app' = draw(app, url, path, clicks, accepted)
  /\ UNCHANGED <<pc, app_config, current_id_to_forget, ui_tx, rx_live, api_calls,
                 result, task2, engine, held>>

\* The receiver of the command channel goes away
DropCommandReceiver ==
  /\ app.cmd_rx_live
  /\ app' = [app EXCEPT !.cmd_rx_live = FALSE]
  /\ UNCHANGED <<pc, app_config, current_id_to_forget, ui_tx, rx_live, api_calls,
                 result, task2, engine, held>>

InitPanel ==
  /\ pc = "idle"
  /\ app_config \in {c \in PathConfigs : c.download_path = "" /\ ~c.should_seed}
  /\ current_id_to_forget = NoneId
  /\ ui_tx = <<>>
  /\ rx_live = TRUE
  /\ api_calls = <<>>
  /\ result = NoResult
  /\ task2 = IdleTask
  /\ engine = EmptyEngine
  /\ held = NoneId
  /\ app = FreshApp

NextPanel == DrawFrame \/ DropCommandReceiver

SpecPanel == InitPanel /\ [][NextPanel]_vars

\* ------------------------------------------------------------ observations

Returned == pc = "returned"
EmptyPath == app_config.download_path = ""

\* positions in ui_tx of the events / statuses with a given tag
EventsAt(tag) == {i \in DOMAIN ui_tx : ui_tx[i].kind = "event" /\ ui_tx[i].tag = tag}
StatusesAt(tag) == {i \in DOMAIN ui_tx : ui_tx[i].kind = "status" /\ ui_tx[i].tag = tag}
StatusPositions == {i \in DOMAIN ui_tx : ui_tx[i].kind = "status"}
ErrorEventsWith(msg) == {i \in EventsAt("Error") : ui_tx[i].msg = msg}

\* the tag of the last status sent, "none" before the first
LastStatus ==
  IF StatusPositions = {} THEN "none"
  ELSE ui_tx[CHOOSE i \in StatusPositions : \A j \in StatusPositions : j <= i].tag

CallsAt(op) == {i \in DOMAIN api_calls : api_calls[i].op = op}
InFlight == {i \in DOMAIN api_calls : api_calls[i].state = "in_flight"}
ForgetFailed == \E i \in CallsAt("forget") : api_calls[i].state = "err"
ForgetSucceeded == \E i \in CallsAt("forget") : api_calls[i].state = "ok"
AddFailed == \E i \in CallsAt("add") : api_calls[i].state = "err"

\* ------------------------------------------------------------------ C1

\* C1 as stated: with an empty destination path, whatever the previous
\* identifier and the outcome of the forget call, the invocation returns
\* Ok(None), sends exactly one Error event in all, and its last status is Error.
C1_EmptyPathOneErrorEvent ==
  (Returned /\ EmptyPath) =>
     /\ result = OkNone
     /\ Cardinality(EventsAt("Error")) = 1
     /\ LastStatus = "Error"

\* C1 amended: with an empty destination path the invocation returns Ok(None),
\* its last status is Error, and it sends exactly one "path not configured"
\* Error event; that is the only Error event unless the forget call failed,
\* in which case the Error event of the failed forget precedes it (two in all).
C1_EmptyPathErrorEvents ==
  (Returned /\ EmptyPath) =>
     /\ result = OkNone
     /\ LastStatus = "Error"
     /\ Cardinality(ErrorEventsWith(MsgNoPath)) = 1
     /\ Cardinality(EventsAt("Error")) = (IF ForgetFailed THEN 2 ELSE 1)
     /\ ForgetFailed =>
          \E i \in ErrorEventsWith(MsgForgetFailed) :
            \A j \in ErrorEventsWith(MsgNoPath) : i < j

C1_Witness ==
  /\ Returned /\ EmptyPath /\ ForgetFailed
  /\ Cardinality(EventsAt("Error")) = 2
  /\ result = OkNone

\* ------------------------------------------------------------------ C2

\* r * 1024 fits the unsigned 32-bit range
FitsU32(w) == w.hi < Limb

\* the limit C2 states for a configured rate
StatedLimit(opt) ==
  IF ~opt.some \/ opt.v = 0 \/ ~FitsU32(Mul1024(opt.v))
  THEN NoneU32
  ELSE SomeU32(Mul1024(opt.v))

\* C2: in every add call, each direction's limit is absent when the
\* configured KB/s rate r is absent, is 0, or r * 1024 does not fit 32 bits,
\* and equals exactly r * 1024 otherwise.
C2_RateLimitTranslation ==
  \A i \in CallsAt("add") :
     /\ api_calls[i].options.ratelimits.download_bps = StatedLimit(app_config.max_download_speed)
     /\ api_calls[i].options.ratelimits.upload_bps = StatedLimit(app_config.max_upload_speed)

\* an add call is made with a configured rate whose product overflows 32 bits
C2_Witness ==
  /\ CallsAt("add") # {}
  /\ app_config.max_download_speed.some
  /\ ~FitsU32(Mul1024(app_config.max_download_speed.v))

\* ------------------------------------------------------------------ C3

\* C3: a finished invocation has returned an error if and only if its add call
\* was made and returned an engine error; a failed forget, an empty path, an
\* add response without identifier and a failed send all end in Ok.
C3_ErrIffAddFailed ==
  Returned =>
     /\ result.kind \in {"Ok", "Err"}
     /\ (result.kind = "Err") <=> AddFailed
     /\ (EmptyPath \/ (\E i \in CallsAt("add") : api_calls[i].state = "ok"))
          => result.kind = "Ok"

C3_Witness ==
  /\ Returned /\ result = Err /\ AddFailed /\ ForgetFailed
  /\ \E i \in DOMAIN ui_tx : ~ui_tx[i].delivered

\* ------------------------------------------------------------------ C4

\* the add call comes after the failed forget call, and the Error event of the
\* failed forget was sent before the add call was issued
AddFollowsFailedForget ==
  \E f \in CallsAt("forget"), a \in CallsAt("add") :
     /\ api_calls[f].state = "err"
     /\ f < a
     /\ \E e \in ErrorEventsWith(MsgForgetFailed) : e <= api_calls[a].at

\* C4 as stated: whenever the forget call has failed, the add call is invoked
\* after it, preceded by the Error event of the forget failure.
C4_FailedForgetStillAdds == ForgetFailed => AddFollowsFailedForget

\* C4 amended: whenever the forget call has failed and the destination path is
\* not empty, the add call is invoked after it, preceded by the Error event of
\* the forget failure; with an empty path the Error event of the forget
\* failure is still sent and the invocation ends at the path guard (Ok(None),
\* "path not configured" sent after it), never at the failed forget itself.
C4_FailedForgetStillAddsIfPath ==
  ForgetFailed =>
     IF ~EmptyPath
     THEN AddFollowsFailedForget
     ELSE /\ Returned /\ result = OkNone
          /\ CallsAt("add") = {}
          /\ \E e \in ErrorEventsWith(MsgForgetFailed), g \in ErrorEventsWith(MsgNoPath) : e < g

C4_Witness ==
  /\ ForgetFailed /\ ~EmptyPath
  /\ \E a \in CallsAt("add") : api_calls[a].state = "in_flight"

\* ------------------------------------------------------------------ C5

\* message m of ui_tx is the status / event with the given tag and identifier
IsMsg(m, kind, tag, id) == m.kind = kind /\ m.tag = tag /\ m.id = id

\* C5: once the add call has succeeded with identifier I, the invocation has
\* returned Ok(Some(I)); its messages start with the UpdatingTorrent status
\* and end with TorrentAdded(I) immediately followed by the Idle status;
\* TorrentAdded is sent exactly once, and Idle once, as the last message.
C5_SuccessSequence ==
  \A a \in CallsAt("add") :
    (api_calls[a].state = "ok" /\ api_calls[a].resp_id.some) =>
       LET I == api_calls[a].resp_id.v
           n == Len(ui_tx)
       IN /\ Returned /\ result = OkSome(I)
          /\ n >= 3
          /\ IsMsg(ui_tx[1], "status", "UpdatingTorrent", -1)
          /\ IsMsg(ui_tx[n - 1], "event", "TorrentAdded", I)
          /\ IsMsg(ui_tx[n], "status", "Idle", -1)
          /\ EventsAt("TorrentAdded") = {n - 1}
          /\ StatusesAt("Idle") = {n}

C5_Witness ==
  /\ Returned /\ result = OkSome(1)
  /\ ForgetFailed
  /\ Len(ui_tx) = 5

\* ------------------------------------------------------------------ C6

\* C6: once the add call has returned an engine error, the invocation has
\* returned an error, and it has sent neither an Idle status nor a
\* TorrentAdded event.
C6_AddErrorNoIdle ==
  AddFailed =>
     /\ Returned /\ result = Err
     /\ StatusesAt("Idle") = {}
     /\ EventsAt("TorrentAdded") = {}

C6_Witness == Returned /\ AddFailed /\ result = Err /\ ForgetSucceeded

\* ------------------------------------------------------------------ C7

\* C7: the last status sent by an invocation that has returned is a resting
\* one, Idle or Error, whatever it returned.
C7_ReturnedAtRest == Returned => LastStatus \in {"Idle", "Error"}

C7_Witness == Returned /\ result = Err /\ LastStatus = "UpdatingTorrent"

\* ------------------------------------------------------------------ C8

\* C8: at most one engine call of the invocation is in flight; every forget
\* call comes before every add call and has completed (ok or err) by the time
\* the add call exists; the task waits exactly for the call in flight.
C8_ForgetBeforeAdd ==
  /\ Cardinality(InFlight) <= 1
  /\ \A a \in CallsAt("add"), f \in CallsAt("forget") :
        f < a /\ api_calls[f].state \in {"ok", "err"}
  /\ (pc = "await_forget") <=> (\E f \in CallsAt("forget") : f \in InFlight)
  /\ (pc = "await_add") <=> (\E a \in CallsAt("add") : a \in InFlight)

C8_Witness ==
  /\ pc = "await_add"
  /\ Len(api_calls) = 2
  /\ api_calls[1].op = "forget" /\ api_calls[1].state = "err"
  /\ api_calls[2].op = "add" /\ api_calls[2].state = "in_flight"

\* ------------------------------------------------------------------ C9

\* C9: with an empty destination path the add call is never made; with an
\* empty path and no previous identifier no engine call is made at all.
C9_EmptyPathGatesAdd ==
  EmptyPath =>
     /\ CallsAt("add") = {}
     /\ ~current_id_to_forget.some => api_calls = <<>>

C9_Witness ==
  /\ Returned /\ EmptyPath /\ ~current_id_to_forget.some
  /\ api_calls = <<>> /\ result = OkNone

\* ------------------------------------------------------------------ C10

\* the add call succeeded and its response carries no identifier
AddedWithoutId ==
  \E a \in CallsAt("add") : api_calls[a].state = "ok" /\ ~api_calls[a].resp_id.some

\* C10: once the add call has succeeded without an identifier, the invocation
\* has returned Ok(None), has sent exactly one Error event for that anomaly,
\* its last status is Error, and it has sent no TorrentAdded and no Idle.
C10_NoIdentifier ==
  AddedWithoutId =>
     /\ Returned /\ result = OkNone
     /\ Cardinality(ErrorEventsWith(MsgNoId)) = 1
     /\ LastStatus = "Error"
     /\ EventsAt("TorrentAdded") = {}
     /\ StatusesAt("Idle") = {}

C10_Witness == AddedWithoutId /\ Returned /\ result = OkNone /\ ForgetSucceeded

\* ------------------------------------------------------------------ C11

\* every message of the log was refused / accepted by the channel
AllSendsFailed(tx) == \A i \in DOMAIN tx : ~tx[i].delivered
AllSendsDelivered(tx) == \A i \in DOMAIN tx : tx[i].delivered

\* C11: given the same configuration, previous identifier and engine answers,
\* the invocation whose receiver has been dropped (at any point, also before
\* the first send) is at the same point, has made the same engine calls in
\* the same order, and has the same result as the one whose receiver is live;
\* it sent the same messages, only their delivery differs.
C11_FireAndForget ==
  /\ AllSendsDelivered(task2.ui_tx)
  /\ pc = task2.pc
  /\ api_calls = task2.api_calls
  /\ result = task2.result
  /\ Len(ui_tx) = Len(task2.ui_tx)
  /\ \A i \in DOMAIN ui_tx :
        [ui_tx[i] EXCEPT !.delivered = TRUE] = task2.ui_tx[i]
  /\ (pc = "returned" /\ result = Err) => AddFailed

\* every send failed, the forget failed, and add still returned identifier 1
C11_Witness ==
  /\ pc = "returned" /\ task2.pc = "returned"
  /\ ~rx_live /\ AllSendsFailed(ui_tx) /\ Len(ui_tx) = 5
  /\ AllSendsDelivered(task2.ui_tx) /\ Len(task2.ui_tx) = 5
  /\ ForgetFailed
  /\ result = OkSome(1) /\ task2.result = OkSome(1)

\* ------------------------------------------------------------------ C12

\* C12: the options of every add call are a function of the configuration
\* only: the output folder is the destination path, overwrite is true, paused
\* is the negation of the seeding preference, and each direction's limit is
\* the translation of that direction's configured rate alone.
C12_OptionsFromConfig ==
  \A a \in CallsAt("add") :
     LET o == api_calls[a].options
     IN /\ o.output_folder = app_config.download_path
        /\ o.overwrite = TRUE
        /\ o.paused = ~app_config.should_seed
        /\ o.ratelimits.download_bps = RateLimit(app_config.max_download_speed)
        /\ o.ratelimits.upload_bps = RateLimit(app_config.max_upload_speed)

\* an add call after a failed forget, seeding wanted, the two rates different
C12_Witness ==
  /\ ForgetFailed
  /\ app_config.should_seed
  /\ app_config.max_download_speed = SomeRate(500)
  /\ app_config.max_upload_speed = NoneRate
  /\ \E a \in CallsAt("add") :
        /\ ~api_calls[a].options.paused
        /\ api_calls[a].options.ratelimits.download_bps = SomeU32([hi |-> 7, lo |-> 53248])
        /\ api_calls[a].options.ratelimits.upload_bps = NoneU32

\* ------------------------------------------------------------------ C13

\* a limit handed to the engine: absent, or a non-zero 32-bit value
AbsentOrPositiveU32(l) ==
  \/ ~l.some
  \/ /\ l.v # Zero32
     /\ l.v.hi \in 0..(Limb - 1)
     /\ l.v.lo \in 0..(Limb - 1)

\* C13: no add call carries a rate limit of zero bytes per second: each
\* direction's limit is absent or strictly positive and fits 32 bits.
C13_NoZeroLimit ==
  \A a \in CallsAt("add") :
     /\ AbsentOrPositiveU32(api_calls[a].options.ratelimits.download_bps)
     /\ AbsentOrPositiveU32(api_calls[a].options.ratelimits.upload_bps)

\* an add call with a configured 0 and a rate whose product is 2^32
C13_Witness ==
  /\ app_config.max_download_speed = SomeRate(4194304)
  /\ app_config.max_upload_speed = SomeRate(0)
  /\ \E a \in CallsAt("add") :
        /\ api_calls[a].options.ratelimits.download_bps = NoneU32
        /\ api_calls[a].options.ratelimits.upload_bps = NoneU32

\* ------------------------------------------------------------------ C14

\* the add call succeeded with an identifier
AddedWithId ==
  \E a \in CallsAt("add") : api_calls[a].state = "ok" /\ api_calls[a].resp_id.some

\* C14: every Error event belongs to one of the three absorbed failures and is
\* sent only when that failure happened; in an invocation without any of them
\* (no failed forget, path not empty, add returned identifier I) no Error
\* event and no Error status is sent and the only event is TorrentAdded(I).
C14_ErrorsOnlyForAbsorbedFailures ==
  /\ \A e \in EventsAt("Error") : ui_tx[e].msg \in {MsgForgetFailed, MsgNoPath, MsgNoId}
  /\ ErrorEventsWith(MsgForgetFailed) # {} => ForgetFailed
  /\ ErrorEventsWith(MsgNoPath) # {} => (EmptyPath /\ Returned)
  /\ ErrorEventsWith(MsgNoId) # {} => AddedWithoutId
  /\ StatusesAt("Error") # {} => ((EmptyPath /\ Returned) \/ AddedWithoutId)
  /\ (AddedWithId /\ ~ForgetFailed) =>
        /\ EventsAt("Error") = {}
        /\ StatusesAt("Error") = {}
        /\ \A a \in CallsAt("add") :
              \A i \in DOMAIN ui_tx :
                 ui_tx[i].kind = "event" =>
                    IsMsg(ui_tx[i], "event", "TorrentAdded", api_calls[a].resp_id.v)
        /\ Cardinality(EventsAt("TorrentAdded")) = 1

C14_Witness ==
  /\ Returned /\ AddedWithId /\ ForgetSucceeded /\ ~EmptyPath
  /\ result = OkSome(2)
  /\ EventsAt("Error") = {}

\* ------------------------------------------------------------------ C15

\* C15: while an engine call is in flight the last status sent is
\* UpdatingTorrent, and the message sent right before each engine call was
\* issued is the UpdatingTorrent status.
C15_UpdatingWhileInFlight ==
  /\ InFlight # {} => LastStatus = "UpdatingTorrent"
  /\ \A c \in DOMAIN api_calls :
        /\ api_calls[c].at \in DOMAIN ui_tx
        /\ IsMsg(ui_tx[api_calls[c].at], "status", "UpdatingTorrent", -1)

\* the add call is in flight after a failed forget and its Error event
C15_Witness ==
  /\ pc = "await_add" /\ ForgetFailed
  /\ InFlight = {2}
  /\ Len(ui_tx) = 3

\* ------------------------------------------------------------------ C16

\* the transfers the caller knows of: the one whose identifier it holds
HeldSet == IF held.some THEN {held.v} ELSE {}

\* C16: between invocations of a caller that threads the handle, the engine
\* tracks at most one transfer of this component, and it is the one whose
\* identifier the caller holds.
C16_AtMostOneTracked ==
  pc = "idle" =>
     /\ Cardinality(engine.tracked) <= 1
     /\ engine.tracked \subseteq HeldSet
     /\ current_id_to_forget = held

\* after a replace cycle: the second identifier is held and tracked alone
C16_Witness ==
  /\ pc = "idle"
  /\ held = SomeId(1)
  /\ engine.tracked = {1}
  /\ engine.next_id = 2

\* ------------------------------------------------------------------ C17

\* the add calls of a call log, and those answered with an identifier
AddsOf(calls) == {i \in DOMAIN calls : calls[i].op = "add"}
AddedIdsOf(calls) ==
  {calls[i].resp_id.v : i \in {j \in AddsOf(calls) : calls[j].state = "ok" /\ calls[j].resp_id.some}}
InProgress(p) == p \in {"await_forget", "await_add"}

\* C17: nothing in the function serialises two invocations: an invocation can
\* start, and can resume from either suspension point, whatever the position
\* of the other one; and when both add calls have succeeded, the engine tracks
\* two distinct transfers with the same output folder.
C17_NoMutualExclusion ==
  /\ task2.pc = "idle" => ENABLED Task2Invoke
  /\ task2.pc = "await_forget" => ENABLED Task2ForgetReturns
  /\ task2.pc = "await_add" => ENABLED Task2AddReturns
  /\ pc = "idle" => ENABLED Invoke
  /\ pc = "await_forget" => ENABLED EngineForgetReturns
  /\ pc = "await_add" => ENABLED EngineAddReturns
  /\ \A i \in AddedIdsOf(api_calls), j \in AddedIdsOf(task2.api_calls) :
        /\ i # j
        /\ {i, j} \subseteq engine.tracked
        /\ \A a \in AddsOf(api_calls), b \in AddsOf(task2.api_calls) :
              api_calls[a].options.output_folder = task2.api_calls[b].options.output_folder

\* the second invocation began while the first waited for its forget call,
\* got its identifier first, both add calls succeeded, and the engine tracks
\* the two transfers
C17_Witness ==
  /\ pc = "returned" /\ task2.pc = "returned"
  /\ task2.began = "await_forget"
  /\ current_id_to_forget = SomeId(0)
  /\ api_calls[1].op = "forget" /\ task2.api_calls[1].op = "forget"
  /\ result = OkSome(2) /\ task2.result = OkSome(1)
  /\ engine.tracked = {1, 2}

\* ------------------------------------------------------------------ C18

\* the commands the last frame tried to send, delivered or not
Attempted == app.frame.sent \o app.frame.logged
CountOf(seq, m) == Cardinality({i \in DOMAIN seq : seq[i] = m})
ValidConfig(c) == c.torrent_url # "" /\ c.download_path # ""

\* C18: a frame tries to send a command only if the saved configuration has a
\* non-empty URL and a non-empty path; it sends at most one command per
\* clicked button, TriggerManualRefresh for the refresh button and
\* TriggerFolderVerify for the verify button; what reached the channel is
\* exactly what was sent; a failed send is logged and leaves the
\* configuration and the queue as they were.
C18_CommandsOnlyWhenValid ==
  /\ Attempted # <<>> => (ValidConfig(app.frame.config) /\ ValidConfig(app.config))
  /\ \A i \in DOMAIN Attempted : Attempted[i] \in {"TriggerManualRefresh", "TriggerFolderVerify"}
  /\ CountOf(Attempted, "TriggerManualRefresh") <= (IF "refresh" \in app.frame.clicks THEN 1 ELSE 0)
  /\ CountOf(Attempted, "TriggerFolderVerify") <= (IF "verify" \in app.frame.clicks THEN 1 ELSE 0)
  /\ app.sync_cmd_tx = app.frame.queue \o app.frame.sent
  /\ app.config = app.frame.config
  /\ app.frame.logged # <<>> =>
        /\ ~app.cmd_rx_live
        /\ app.frame.sent = <<>>
        /\ app.sync_cmd_tx = app.frame.queue

\* a frame in which both buttons were clicked with a valid configuration and
\* both sends failed
C18_Witness ==
  /\ app.frame.clicks = Buttons
  /\ app.frame.logged = <<"TriggerManualRefresh", "TriggerFolderVerify">>
  /\ ValidConfig(app.config)
  /\ app.sync_cmd_tx = <<"TriggerManualRefresh">>

====
